---- MODULE Spec2Model ----
(***************************************************************************)
(* Stackby MCP server: the HTTP entry points (src/src/server-http.ts and   *)
(* its shared-transport variant src/unnamed/part_003), the request context *)
(* (src/unnamed/part_004), the tool registry (src/unnamed/part_001) and    *)
(* the two remote API clients (src/unnamed/part_002, the MCP client that   *)
(* reads the request context, and src/src/stackby-api.ts, the devapi       *)
(* client that reads the environment only).                                *)
(*                                                                         *)
(* A string is a sequence of characters; the multi-character tokens        *)
(* "Bearer ", "Basic " and "pat_" are single characters of the alphabet.   *)
(* A value that may be undefined is the one-element sequence Undefined.    *)
(***************************************************************************)
EXTENDS Integers, Sequences, FiniteSets, TLC

VARIABLES
  entry,                 \* which entry point this process runs
  client,                \* which stackby-api module the process links
  ENV_API_KEY,           \* process.env.STACKBY_API_KEY || ""
  requestContextStorage, \* AsyncLocalStorage: the store of each async chain
  ch                     \* the state of each asynchronous call chain

vars == <<entry, client, ENV_API_KEY, requestContextStorage, ch>>

Chains == {"A", "B"}

Undefined == <<"undefined">>

IsWhitespace(x) == x = " "

RECURSIVE trimStart(_)
trimStart(s) ==
  IF s # <<>> /\ IsWhitespace(Head(s)) THEN trimStart(Tail(s)) ELSE s

RECURSIVE trimEnd(_)
trimEnd(s) ==
  IF s # <<>> /\ IsWhitespace(s[Len(s)]) THEN trimEnd(SubSeq(s, 1, Len(s) - 1)) ELSE s

\* String.prototype.trim
trim(s) == trimEnd(trimStart(s))

\* JavaScript truthiness of a string | undefined
Truthy(s) == s # Undefined /\ s # <<>>

(***************************************************************************)
(* HTTP requests                                                           *)
(***************************************************************************)
MCP_PATH == "/mcp"
HEALTH_PATH == "/health"

\* normalizePath: query string dropped, trimmed, lower-cased, one trailing
\* slash dropped. Raw URLs are the keys of this table.
normalizePath(raw) ==
  CASE raw = "/mcp" -> "/mcp"
    [] raw = "/MCP/?session=1" -> "/mcp"
    [] raw = "/health" -> "/health"
    [] raw = "/Health/" -> "/health"
    [] raw = "/" -> "/"
    [] OTHER -> raw

\* One JSON-RPC message of a body: is it a JSON object, which keys it has,
\* and what its id is ("absent", "null" or "set").
Msg(isObj, jsonrpc, method, id) ==
  [isObj |-> isObj, jsonrpc |-> jsonrpc, method |-> method, id |-> id]

Notification == Msg(TRUE, TRUE, TRUE, "absent")
NullIdMessage == Msg(TRUE, TRUE, TRUE, "null")
CallMessage == Msg(TRUE, TRUE, TRUE, "set")
ResultMessage == Msg(TRUE, TRUE, FALSE, "set")
BareObject == Msg(TRUE, FALSE, FALSE, "absent")
Primitive == Msg(FALSE, FALSE, FALSE, "absent")

\* A parsed body: undefined, a primitive (null, number, string), one object
\* or an array of messages.
Body(kind, msgs) == [kind |-> kind, msgs |-> msgs]

BodyUndefined == Body("undefined", <<>>)

JsonBodies ==
  { Body("prim", <<>>),
    Body("obj", <<Notification>>),
    Body("obj", <<NullIdMessage>>),
    Body("obj", <<CallMessage>>),
    Body("obj", <<BareObject>>),
    Body("array", <<>>),
    Body("array", <<Notification, Notification>>),
    Body("array", <<Notification, CallMessage>>),
    Body("array", <<Notification, Primitive>>) }

\* The bytes of a request body: text is "empty" (length 0), "blank"
\* (whitespace only), "invalid" (not JSON) or "json" (the text of json).
Raw(text, json) == [text |-> text, json |-> json]

RawEmpty == Raw("empty", BodyUndefined)

RawBodies ==
  { RawEmpty, Raw("blank", BodyUndefined), Raw("invalid", BodyUndefined) }
    \cup { Raw("json", b) : b \in JsonBodies }

Request(method, url, key, auth, apiUrl, body) ==
  [method |-> method, url |-> url, key |-> key, auth |-> auth,
   apiUrl |-> apiUrl, body |-> body]

NoRequest == Request("none", "/", Undefined, Undefined, Undefined, RawEmpty)

\* Values of the X-Stackby-API-Key, Authorization and X-Stackby-API-Url headers
Headers ==
  { <<Undefined, Undefined, Undefined>>,
    <<<<" ">>, Undefined, Undefined>>,
    <<Undefined, <<"Bearer ", " ">>, Undefined>>,
    <<Undefined, <<"Basic ", "a">>, Undefined>>,
    <<<<" ", "a">>, Undefined, Undefined>>,
    <<<<"a", " ">>, <<"Bearer ", "pat_", "b">>, <<"u", " ">>>>,
    <<<<" ">>, <<"Bearer ", "pat_", "b", " ">>, Undefined>>,
    <<Undefined, <<"Bearer ", " ", "pat_", "b">>, <<" ">>>> }

\* The requests of the first caller: every header combination with every
\* body and method on /mcp, and the other paths.
RequestsA ==
  { Request("POST", u, h[1], h[2], h[3], b) :
      u \in {"/mcp"}, h \in Headers, b \in RawBodies }
  \cup { Request("GET", u, h[1], h[2], h[3], RawEmpty) :
      u \in {"/mcp", "/MCP/?session=1"}, h \in Headers }
  \cup { Request("POST", "/MCP/?session=1", <<" ", "a">>, Undefined, Undefined,
                 Raw("json", Body("obj", <<CallMessage>>))),
         Request("GET", "/health", Undefined, Undefined, Undefined, RawEmpty),
         Request("GET", "/Health/", Undefined, Undefined, Undefined, RawEmpty),
         Request("POST", "/health", <<"a">>, Undefined, Undefined, RawEmpty),
         Request("GET", "/", <<"a">>, Undefined, Undefined, RawEmpty) }

\* The requests of the concurrent second caller: authenticated tool calls
\* with either key.
RequestsB ==
  { Request("POST", "/mcp", h[1], h[2], h[3], Raw("json", Body("obj", <<CallMessage>>))) :
      h \in { <<<<"a">>, Undefined, Undefined>>,
              <<Undefined, <<"Bearer ", "pat_", "b">>, <<"v">>>> } }

Requests(c) == IF c = "A" THEN RequestsA ELSE RequestsB

\* The remainder of a Bearer value taken as it is, blank or not.
bearerUntrimmed(req) ==
  IF req.key # Undefined /\ trim(req.key) # <<>> THEN trim(req.key)
  ELSE IF req.auth # Undefined /\ Len(req.auth) >= 1 /\ req.auth[1] = "Bearer "
       THEN Tail(req.auth)
       ELSE Undefined

\* The Authorization header looked at before X-Stackby-API-Key.
bearerFirst(req) ==
  IF req.auth # Undefined /\ Len(req.auth) >= 1 /\ req.auth[1] = "Bearer "
  THEN trim(Tail(req.auth))
  ELSE IF req.key # Undefined /\ trim(req.key) # <<>> THEN trim(req.key)
       ELSE Undefined

\* getApiKeyFromRequest
getApiKeyFromRequest(req) ==
  IF req.key # Undefined /\ trim(req.key) # <<>> THEN trim(req.key)
  ELSE IF req.auth # Undefined /\ Len(req.auth) >= 1 /\ req.auth[1] = "Bearer "
       THEN trim(Tail(req.auth))
       ELSE Undefined

\* getApiUrlFromRequest
getApiUrlFromRequest(req) ==
  IF req.apiUrl # Undefined /\ trim(req.apiUrl) # <<>> THEN trim(req.apiUrl)
  ELSE Undefined

\* JSON.parse of the text read from the stream, undefined when the text is
\* empty, blank or not JSON (readBody)
parseRaw(raw) == IF raw.text = "json" THEN raw.json ELSE BodyUndefined

\* isNotificationOnly on one element
isNotificationMsg(m) ==
  m.isObj /\ m.jsonrpc /\ m.method /\ ~(m.id = "set")

\* isNotificationOnly
isNotificationOnly(body) ==
  CASE body.kind = "undefined" -> FALSE
    [] body.kind = "prim" -> FALSE
    [] body.kind = "array" ->
         Len(body.msgs) = 0 \/ \A i \in 1..Len(body.msgs) : isNotificationMsg(body.msgs[i])
    [] OTHER -> isNotificationMsg(body.msgs[1])

(***************************************************************************)
(* Request context (AsyncLocalStorage)                                     *)
(***************************************************************************)
Ctx(apiKey, apiUrl) == [apiKey |-> apiKey, apiUrl |-> apiUrl]

\* One store for the whole process: the context of whichever chain set one.
contextOfAnyChain(c) ==
  IF \E d \in Chains : requestContextStorage[d] # <<>>
  THEN requestContextStorage[CHOOSE d \in Chains : requestContextStorage[d] # <<>>]
  ELSE <<>>

\* getRequestContext: the store of the calling chain, <<>> when it has none
getRequestContext(c) == requestContextStorage[c]

\* A single variable shared by all chains instead of a per-chain store.
runShared(storage, c, context) == [x \in Chains |-> <<context>>]

\* One context object that every request in progress holds and run() overwrites.
runOverwriting(storage, c, context) ==
  [d \in Chains |-> IF d = c \/ storage[d] # <<>> THEN <<context>> ELSE storage[d]]

\* runWithRequestContext: fn and its continuations run with `context` as
\* the store of their chain; no other chain's store changes.
runWithRequestContext(storage, c, context) == [storage EXCEPT ![c] = <<context>>]

\* The key of the context never read.
contextKeyIgnored(c) == Undefined

\* getApiKeyFromContext: ctx?.apiKey?.trim() || undefined
getApiKeyFromContext(c) ==
  LET ctx == getRequestContext(c) IN
  IF ctx = <<>> THEN Undefined
  ELSE IF ctx[1].apiKey = Undefined THEN Undefined
  ELSE IF trim(ctx[1].apiKey) = <<>> THEN Undefined
  ELSE trim(ctx[1].apiKey)

\* getApiUrlFromContext: ctx?.apiUrl?.trim() || undefined
getApiUrlFromContext(c) ==
  LET ctx == getRequestContext(c) IN
  IF ctx = <<>> THEN Undefined
  ELSE IF ctx[1].apiUrl = Undefined THEN Undefined
  ELSE IF trim(ctx[1].apiUrl) = <<>> THEN Undefined
  ELSE trim(ctx[1].apiUrl)

(***************************************************************************)
(* Remote API client                                                       *)
(***************************************************************************)
DEFAULT_BASE_URL == <<"d", "/">>

\* String.prototype.replace(/\/$/, "")
stripSlash(s) == IF s # <<>> /\ s[Len(s)] = "/" THEN SubSeq(s, 1, Len(s) - 1) ELSE s

\* The order reversed: the environment key first, the context key after it.
envKeyFirst(c) ==
  IF trim(ENV_API_KEY) # <<>> THEN trim(ENV_API_KEY)
  ELSE IF Truthy(getApiKeyFromContext(c)) THEN getApiKeyFromContext(c) ELSE <<>>

\* getEffectiveApiKey (part_002); API_KEY.trim() in the devapi client
getEffectiveApiKey(c) ==
  IF client = "mcp"
  THEN IF Truthy(getApiKeyFromContext(c)) THEN getApiKeyFromContext(c)
       ELSE trim(ENV_API_KEY)
  ELSE trim(ENV_API_KEY)

\* getEffectiveBaseUrl (part_002); BASE_URL in the devapi client
getEffectiveBaseUrl(c) ==
  IF client = "mcp" /\ Truthy(getApiUrlFromContext(c))
  THEN stripSlash(getApiUrlFromContext(c))
  ELSE stripSlash(DEFAULT_BASE_URL)

\* A key taken to be there always.
keyAssumed(c) == TRUE

\* hasApiKey
hasApiKey(c) == getEffectiveApiKey(c) # <<>>

\* Every key taken for a personal access token.
anyKeyIsPat(key) == key # <<>>

\* key.startsWith("pat_")
IsPat(key) == key # <<>> /\ key[1] = "pat_"

\* Headers built from whatever key there is, none included.
authHeadersUnchecked(c) ==
  [thrown |-> FALSE,
   key |-> getEffectiveApiKey(c),
   bearer |-> IF IsPat(getEffectiveApiKey(c)) THEN getEffectiveApiKey(c) ELSE Undefined]

\* authHeaders: throws when there is no key, else the headers of the call
authHeaders(c) ==
  LET key == getEffectiveApiKey(c) IN
  [thrown |-> key = <<>>,
   key |-> key,
   bearer |-> IF IsPat(key) THEN key ELSE Undefined]

\* A JSON value of a response body is the sequence of "data" keys that lead
\* into it followed by what is found there: "null", "empty" ([]), "one"
\* ([x1]), "two" ([x1, x2]), "obj" (an object of the documented shape, no
\* data key) or "bare" ({}).
Leaves == {"null", "empty", "one", "two", "obj", "bare"}

Wrap(x) == <<"data">> \o x

HasDataKey(body) == Len(body) > 1 /\ body[1] = "data"

\* The body returned as it is, wrapped or not.
normalizeNever(body) == body

\* normalizeResponse: body.data when body is an object with a defined data
\* key, else body
normalizeResponse(body) == IF HasDataKey(body) THEN Tail(body) ELSE body

\* `body as { data: T }` followed by out.data in the devapi client: the data
\* key when there is one, undefined when there is none, a TypeError on null
dataOf(body) ==
  IF HasDataKey(body) THEN Tail(body)
  ELSE IF body = <<"null">> THEN <<"TypeError">>
  ELSE Undefined

\* What a caller finds in a payload
Leaf(p) == IF Len(p) > 1 THEN "bare" ELSE p[1]

Range1(n) == [i \in 1..n |-> i]

\* Array.isArray(out.data) ? out.data : []
listOf(p) ==
  CASE Leaf(p) = "one" -> Range1(1)
    [] Leaf(p) = "two" -> Range1(2)
    [] OTHER -> <<>>

\* The result of a client operation or of one awaited request
Ret(thrown, err, status, val) ==
  [thrown |-> thrown, err |-> err, status |-> status, val |-> val, msg |-> "none"]

Value(val) == Ret(FALSE, "none", 0, val)
Thrown(err, status) == Ret(TRUE, err, status, <<>>)

\* new Error(`Stackby API ${res.status}: ${msg}`)
RemoteError(status, msg) == [Thrown("remote", status) EXCEPT !.msg = msg]
NoRet == Ret(FALSE, "pending", 0, <<>>)

\* An answer of the remote service to one call
Answer(ok, status, body) == [ok |-> ok, status |-> status, body |-> body]

\* The body of a failure is <<"error", M>> ({error: M}), <<"message", M>>
\* ({message: M}) or <<"bare">> (no such key, or no JSON at all).
\* The message with the status text in every case.
statusTextOnly(body) == "statusText"

\* body?.error ?? body?.message ?? res.statusText
messageOf(body) ==
  IF Len(body) = 2 /\ body[1] \in {"error", "message"} THEN body[2] ELSE "statusText"

\* The second half of request(): the error of a non-success status, else
\* the normalized payload
requestResult(ans) ==
  IF ~ans.ok
  THEN [ret |-> RemoteError(ans.status, messageOf(ans.body)), payload |-> Undefined]
  ELSE IF client = "mcp"
       THEN [ret |-> Value(<<>>), payload |-> normalizeResponse(ans.body)]
       ELSE IF dataOf(ans.body) = <<"TypeError">>
            THEN [ret |-> Thrown("typeError", 0), payload |-> Undefined]
            ELSE [ret |-> Value(<<>>), payload |-> dataOf(ans.body)]

(***************************************************************************)
(* Client operations. Each is a function of the phase it resumes in (0 at  *)
(* the call, then one per awaited request), its arguments a, what it has   *)
(* accumulated, and the result res and payload p of the request it         *)
(* awaited. It answers with an effect: one more request to await, or its   *)
(* return value or thrown error.                                           *)
(***************************************************************************)
Args(stackId, tableId, name, type, opt, n) ==
  [stackId |-> stackId, tableId |-> tableId, name |-> name, type |-> type,
   opt |-> opt, n |-> n]

NoArgs == Args(<<>>, <<>>, <<>>, <<>>, Undefined, 0)

Eff(t, ep, items, col, ph, a, acc, ret) ==
  [t |-> t, ep |-> ep, items |-> items, col |-> col, ph |-> ph, a |-> a,
   acc |-> acc, ret |-> ret]

\* await request(path, ...) and resume in phase ph
EffCall(ep, items, col, ph, a, acc) == Eff("call", ep, items, col, ph, a, acc, NoRet)

\* Promise.all of the three requests of the devapi describeTable
EffAll(ph, a) == Eff("all", "tables", <<>>, Undefined, ph, a, <<>>, NoRet)

\* still awaiting requests already in flight
EffWait(ph, a, acc) == Eff("wait", "none", <<>>, Undefined, ph, a, acc, NoRet)

\* return or throw
EffRet(ret) == Eff("ret", "none", <<>>, Undefined, 0, NoArgs, <<>>, ret)

\* update_records / delete_records: at most 10 records per request
BatchLimit == 10

\* One request whose payload is returned as a list
listOp(ep, col, ph, a, acc, res, p) ==
  IF ph = 0 THEN EffCall(ep, <<>>, col, 1, a, acc)
  ELSE IF res.thrown THEN EffRet(res)
  ELSE EffRet(Value(listOf(p)))

\* getWorkspaces
getWorkspaces(ph, a, acc, res, p) == listOp("workspaces", Undefined, ph, a, acc, res, p)

\* The list getStacks makes of a payload: out.data when it is an array (MCP
\* client), out.data.list when out.data is an object holding one (devapi)
stackList(p) ==
  IF client = "mcp" THEN listOf(p)
  ELSE IF Leaf(p) = "obj" THEN Range1(1) ELSE <<>>

\* getStacks
getStacks(ph, a, acc, res, p) ==
  IF ph = 0 THEN EffCall("stacks", <<>>, a.name, 1, a, acc)
  ELSE IF res.thrown THEN EffRet(res)
  ELSE EffRet(Value(stackList(p)))

\* Stack i of workspace k
StackOf(k, i) == 10 * k + i

\* getAllStacks that gives up at the first workspace that fails.
getAllStacksFailingFast(ph, a, acc, res, p) ==
  IF ph = 0 THEN EffCall("workspaces", <<>>, Undefined, 1, a, acc)
  ELSE IF res.thrown THEN EffRet(res)
  ELSE IF ph = 1
  THEN IF listOf(p) = <<>> THEN EffRet(Value(<<>>))
       ELSE EffCall("stacks", <<1>>, Undefined, 2, a, <<Len(listOf(p))>>)
  ELSE LET k == ph - 1
           all == acc \o [i \in 1..Len(stackList(p)) |-> StackOf(k, stackList(p)[i])] IN
       IF k < acc[1] THEN EffCall("stacks", <<k + 1>>, Undefined, ph + 1, a, all)
       ELSE EffRet(Value(Tail(all)))

\* getAllStacks: acc holds the number of workspaces, then `all`; phase k + 1
\* resumes after the stack fetch of workspace k, whose failure is skipped
getAllStacks(ph, a, acc, res, p) ==
  IF ph = 0 THEN EffCall("workspaces", <<>>, Undefined, 1, a, acc)
  ELSE IF ph = 1
  THEN IF res.thrown THEN EffRet(res)
       ELSE IF listOf(p) = <<>> THEN EffRet(Value(<<>>))
       ELSE EffCall("stacks", <<1>>, Undefined, 2, a, <<Len(listOf(p))>>)
  ELSE LET k == ph - 1
           got == IF res.thrown THEN <<>>
                  ELSE [i \in 1..Len(stackList(p)) |-> StackOf(k, stackList(p)[i])]
           all == acc \o got IN
       IF k < acc[1] THEN EffCall("stacks", <<k + 1>>, Undefined, ph + 1, a, all)
       ELSE EffRet(Value(Tail(all)))

\* getTables
getTables(ph, a, acc, res, p) == listOp("tables", Undefined, ph, a, acc, res, p)

\* getTableColumns
getTableColumns(ph, a, acc, res, p) == listOp("columns", Undefined, ph, a, acc, res, p)

\* getTableViewList
getTableViewList(ph, a, acc, res, p) == listOp("views", Undefined, ph, a, acc, res, p)

\* describeTable: one request in the MCP client; Promise.all of three in
\* the devapi client, rejected by the first failure
describeTable(ph, a, acc, res, p) ==
  IF client = "mcp"
  THEN IF ph = 0 THEN EffCall("table", <<>>, Undefined, 1, a, acc)
       ELSE IF res.thrown THEN EffRet(res)
       ELSE EffRet(Value(IF Leaf(p) = "obj" THEN Range1(1) ELSE <<>>))
  ELSE IF ph = 0 THEN EffAll(1, a)
       ELSE IF res.thrown THEN EffRet(res)
       ELSE IF Len(acc) < 2 THEN EffWait(ph, a, Append(acc, 1))
       ELSE EffRet(Value(Range1(1)))

\* getRowList
getRowList(ph, a, acc, res, p) == listOp("rows", Undefined, ph, a, acc, res, p)

\* getRecord
getRecord(ph, a, acc, res, p) ==
  IF ph = 0
  THEN EffCall(IF client = "mcp" THEN "row" ELSE "rows", <<>>, a.name, 1, a, acc)
  ELSE IF res.thrown THEN EffRet(res)
  ELSE IF client = "mcp"
       THEN EffRet(Value(IF Leaf(p) \in {"one", "two", "obj", "bare"}
                         THEN Range1(1) ELSE <<>>))
       ELSE EffRet(Value(IF listOf(p) # <<>> THEN Range1(1) ELSE <<>>))

\* columns[0].id
FirstColumn == <<"c1">>

\* The match set found in the answer of the search endpoint
matchSet(p) ==
  IF client = "mcp"
  THEN IF Leaf(p) \in {"one", "two", "obj"} THEN Range1(1) ELSE <<>>
  ELSE IF Leaf(p) \in {"one", "two"} THEN Range1(1) ELSE <<>>

\* searchRecords of the devapi client, which returns the empty match set
\* when no column could be resolved
searchRecordsReturningEmpty(ph, a, acc, res, p) ==
  LET columnId == IF a.opt = Undefined THEN Undefined ELSE trim(a.opt) IN
  CASE ph = 0 ->
         IF ~Truthy(columnId) THEN EffCall("columns", <<>>, Undefined, 1, a, acc)
         ELSE EffCall("search", <<>>, columnId, 2, a, acc)
    [] ph = 1 ->
         IF res.thrown THEN EffRet(res)
         ELSE IF listOf(p) = <<>> THEN EffRet(Value(<<>>))
         ELSE EffCall("search", <<>>, FirstColumn, 2, a, listOf(p))
    [] OTHER ->
         IF res.thrown THEN EffRet(res) ELSE EffRet(Value(matchSet(p)))

\* searchRecords of the MCP client, which sends the search without a column
\* when none could be resolved
searchRecordsSendingNoColumn(ph, a, acc, res, p) ==
  LET columnId == IF a.opt = Undefined THEN Undefined ELSE trim(a.opt) IN
  CASE ph = 0 ->
         IF ~Truthy(columnId) THEN EffCall("columns", <<>>, Undefined, 1, a, acc)
         ELSE EffCall("search", <<>>, columnId, 2, a, acc)
    [] ph = 1 ->
         IF res.thrown THEN EffRet(res)
         ELSE EffCall("search", <<>>,
                      IF listOf(p) = <<>> THEN Undefined ELSE FirstColumn, 2, a, listOf(p))
    [] OTHER ->
         IF res.thrown THEN EffRet(res) ELSE EffRet(Value(matchSet(p)))

\* searchRecords
searchRecords(ph, a, acc, res, p) ==
  IF client = "mcp" THEN searchRecordsSendingNoColumn(ph, a, acc, res, p)
  ELSE searchRecordsReturningEmpty(ph, a, acc, res, p)

\* The id of the i-th record of a batch; the second has a leading blank
RowId(i) == IF i = 2 THEN <<" ", "r", ToString(i)>> ELSE <<"r", ToString(i)>>

\* The field map number k, as the sequence of its key and value pairs: one
\* column of the table; a key that is no column of the table, with a null
\* value, before a column; no key at all
FieldMap(k) ==
  CASE k % 3 = 1 -> << <<"Name", "v">> >>
    [] k % 3 = 2 -> << <<"Ghost", "null">>, <<"Name", "v">> >>
    [] OTHER -> <<>>

\* records: Array<{ id, fields }> of n records
Records(n) == [i \in 1..n |-> [id |-> RowId(i), fields |-> FieldMap(i)]]

\* recordIds: string[] of n ids
RecordIds(n) == [i \in 1..n |-> RowId(i)]

\* Only the keys that name a column of the table are kept, and the id trimmed.
bodyRecordOfKnownColumns(r) ==
  [id |-> trim(r.id), field |-> SelectSeq(r.fields, LAMBDA kv : kv[1] = "Name")]

\* (r) => ({ id: r.id, field: r.fields })
bodyRecord(r) == [id |-> r.id, field |-> r.fields]

\* createRow: body { records: [{ field: fields }] }
createRow(ph, a, acc, res, p) ==
  IF ph = 0 THEN EffCall("rowsCreate", <<[field |-> FieldMap(a.n)]>>, Undefined, 1, a, acc)
  ELSE IF res.thrown THEN EffRet(res)
  ELSE EffRet(Value(listOf(p)))

\* updateRows without the check of the batch size
updateRowsUnchecked(ph, a, acc, res, p) ==
  IF ph = 0
  THEN IF a.n = 0 THEN EffRet(Value(<<>>))
       ELSE EffCall("rowsUpdate", [i \in 1..a.n |-> bodyRecord(Records(a.n)[i])],
                    Undefined, 1, a, acc)
  ELSE IF res.thrown THEN EffRet(res)
  ELSE EffRet(Value(listOf(p)))

\* updateRows
updateRows(ph, a, acc, res, p) ==
  IF ph = 0
  THEN IF a.n = 0 THEN EffRet(Value(<<>>))
       ELSE IF a.n > BatchLimit THEN EffRet(Thrown("batch", 0))
       ELSE EffCall("rowsUpdate", [i \in 1..a.n |-> bodyRecord(Records(a.n)[i])],
                    Undefined, 1, a, acc)
  ELSE IF res.thrown THEN EffRet(res)
  ELSE EffRet(Value(listOf(p)))

\* An empty batch sent like any other.
deleteRowsSendsEmpty(ph, a, acc, res, p) ==
  IF ph = 0
  THEN IF a.n > BatchLimit THEN EffRet(Thrown("batch", 0))
       ELSE EffCall("rowsDelete", RecordIds(a.n), Undefined, 1, a, acc)
  ELSE IF res.thrown THEN EffRet(res)
  ELSE EffRet(Value(IF Leaf(p) = "obj" THEN Range1(a.n) ELSE <<>>))

\* deleteRows: an empty batch returns { records: [] } at once
deleteRows(ph, a, acc, res, p) ==
  IF ph = 0
  THEN IF a.n = 0 THEN EffRet(Value(<<>>))
       ELSE IF a.n > BatchLimit THEN EffRet(Thrown("batch", 0))
       ELSE EffCall("rowsDelete", RecordIds(a.n), Undefined, 1, a, acc)
  ELSE IF res.thrown THEN EffRet(res)
  ELSE EffRet(Value(IF Leaf(p) = "obj" THEN Range1(a.n) ELSE <<>>))

\* createTable: body { name: name.trim() }
createTable(ph, a, acc, res, p) ==
  IF ph = 0 THEN EffCall("tableCreate", <<>>, trim(a.name), 1, a, acc)
  ELSE IF res.thrown THEN EffRet(res)
  ELSE EffRet(Value(IF Leaf(p) = "obj" THEN Range1(1) ELSE <<>>))

\* createColumn: body viewId: opts.viewId ?? ""
createColumn(ph, a, acc, res, p) ==
  IF ph = 0
  THEN EffCall("columnCreate", <<>>, IF a.opt = Undefined THEN <<>> ELSE a.opt, 1, a, acc)
  ELSE IF res.thrown THEN EffRet(res)
  ELSE EffRet(Value(IF Leaf(p) = "obj" THEN Range1(1) ELSE <<>>))

Ops ==
  {"getWorkspaces", "getStacks", "getTables", "getTableColumns", "getTableViewList",
   "describeTable", "getRowList", "getRecord", "searchRecords", "createRow",
   "updateRows", "deleteRows", "createTable", "createColumn", "getAllStacks"}

\* The exported functions of stackby-api
opStep(op, ph, a, acc, res, p) ==
  CASE op = "getWorkspaces" -> getWorkspaces(ph, a, acc, res, p)
    [] op = "getStacks" -> getStacks(ph, a, acc, res, p)
    [] op = "getTables" -> getTables(ph, a, acc, res, p)
    [] op = "getTableColumns" -> getTableColumns(ph, a, acc, res, p)
    [] op = "getTableViewList" -> getTableViewList(ph, a, acc, res, p)
    [] op = "describeTable" -> describeTable(ph, a, acc, res, p)
    [] op = "getRowList" -> getRowList(ph, a, acc, res, p)
    [] op = "getRecord" -> getRecord(ph, a, acc, res, p)
    [] op = "searchRecords" -> searchRecords(ph, a, acc, res, p)
    [] op = "createRow" -> createRow(ph, a, acc, res, p)
    [] op = "updateRows" -> updateRows(ph, a, acc, res, p)
    [] op = "deleteRows" -> deleteRows(ph, a, acc, res, p)
    [] op = "createTable" -> createTable(ph, a, acc, res, p)
    [] op = "getAllStacks" -> getAllStacks(ph, a, acc, res, p)
    [] OTHER -> createColumn(ph, a, acc, res, p)

(***************************************************************************)
(* Tool registry                                                           *)
(***************************************************************************)
Inv(tool, a) == [tool |-> tool, a |-> a]

NoInv == Inv("none", NoArgs)

Out(isError, kind, ret) == [isError |-> isError, kind |-> kind, ret |-> ret]

NoOut == Out(FALSE, "none", NoRet)

TEff(t, op, a, tph, out) == [t |-> t, op |-> op, a |-> a, tph |-> tph, out |-> out]

\* return { content, isError }
TOut(out) == TEff("out", "none", NoArgs, 0, out)

\* await <client operation>(...) and resume in phase tph
TOp(op, a, tph) == TEff("op", op, a, tph, NoOut)

BatchTools == {"update_records", "delete_records"}

\* A schema that has lost its lower bound: .max(10) only.
schemaWithoutMin(inv) == inv.tool \in BatchTools => inv.a.n <= 10

\* inputSchema: records / recordIds are arrays of .min(1).max(10) items
toolSchemaOk(inv) == inv.tool \in BatchTools => (inv.a.n >= 1 /\ inv.a.n <= 10)

\* The identifiers a tool requires, trimmed
requiredIds(inv) ==
  LET a == inv.a IN
  CASE inv.tool \in {"list_workspaces", "list_stacks"} -> <<>>
    [] inv.tool \in {"list_tables"} -> <<trim(a.stackId)>>
    [] inv.tool \in {"search_records", "get_record"} ->
         <<trim(a.stackId), trim(a.tableId), trim(a.name)>>
    [] inv.tool = "create_table" -> <<trim(a.stackId), trim(a.name)>>
    [] inv.tool = "create_field" ->
         <<trim(a.stackId), trim(a.tableId), trim(a.name), trim(a.type)>>
    [] OTHER -> <<trim(a.stackId), trim(a.tableId)>>

\* Only the first identifier looked at.
firstIdPresent(inv) == requiredIds(inv) = <<>> \/ requiredIds(inv)[1] # <<>>

\* if (!sId || !tId ...) return { ..., isError: true }
idsPresent(inv) == \A i \in 1..Len(requiredIds(inv)) : requiredIds(inv)[i] # <<>>

\* views[0].id
FirstView == <<"v1">>

\* The id of view i of a view list
ViewId(i) == IF i = 1 THEN FirstView ELSE <<"v", ToString(i)>>

\* The id of the last view of the list.
lastViewId(views) == IF Len(views) > 0 THEN ViewId(views[Len(views)]) ELSE <<>>

\* views.length > 0 ? views[0].id : ""
firstViewId(views) == IF Len(views) > 0 THEN ViewId(views[1]) ELSE <<>>

\* The client operation a tool calls first, with the trimmed identifiers
firstOp(inv) ==
  LET a == inv.a
      t == [a EXCEPT !.stackId = trim(a.stackId), !.tableId = trim(a.tableId)] IN
  CASE inv.tool = "list_workspaces" -> TOp("getWorkspaces", t, 1)
    [] inv.tool = "list_stacks" -> TOp("getAllStacks", t, 1)
    [] inv.tool = "list_tables" -> TOp("getTables", t, 1)
    [] inv.tool = "describe_table" -> TOp("describeTable", t, 1)
    [] inv.tool = "list_records" -> TOp("getRowList", t, 1)
    [] inv.tool = "search_records" -> TOp("searchRecords", [t EXCEPT !.name = trim(a.name)], 1)
    [] inv.tool = "get_record" -> TOp("getRecord", [t EXCEPT !.name = trim(a.name)], 1)
    [] inv.tool = "create_record" -> TOp("createRow", t, 1)
    [] inv.tool = "update_records" -> TOp("updateRows", t, 1)
    [] inv.tool = "delete_records" -> TOp("deleteRows", t, 1)
    [] inv.tool = "create_table" -> TOp("createTable", [t EXCEPT !.name = trim(a.name)], 1)
    [] OTHER ->
         IF a.opt # Undefined /\ trim(a.opt) # <<>>
         THEN TOp("createColumn",
                  [t EXCEPT !.name = trim(a.name), !.type = trim(a.type), !.opt = trim(a.opt)], 2)
         ELSE TOp("getTableViewList", t, 1)

\* The key looked for first, the identifiers after it.
precheckKeyFirst(c, inv) ==
  IF ~hasApiKey(c) THEN Out(FALSE, "guidance", NoRet)
  ELSE IF ~idsPresent(inv) THEN Out(TRUE, "required", NoRet)
  ELSE NoOut

\* What a handler returns before its try block: the identifiers are looked
\* at first, the key after them; NoOut when it goes on
precheck(c, inv) ==
  IF ~idsPresent(inv) THEN Out(TRUE, "required", NoRet)
  ELSE IF ~hasApiKey(c) THEN Out(FALSE, "guidance", NoRet)
  ELSE NoOut

\* No catch around the client call: the handler ends without a result.
noCatch(ret) == NoOut

\* catch (err): the message of the error in a text, isError: true
catchToolError(ret) == Out(TRUE, "failed", ret)

\* A tool handler: phase 0 is the call, phase 1 and 2 resume after the
\* first and second client operation with its result ret
toolStep(c, inv, tph, ret) ==
  CASE tph = 0 ->
         IF precheck(c, inv) # NoOut THEN TOut(precheck(c, inv)) ELSE firstOp(inv)
    [] tph = 1 ->
         IF ret.thrown THEN TOut(catchToolError(ret))
         ELSE IF inv.tool = "create_field"
         THEN TOp("createColumn",
                  [inv.a EXCEPT !.stackId = trim(inv.a.stackId),
                                !.tableId = trim(inv.a.tableId),
                                !.name = trim(inv.a.name), !.type = trim(inv.a.type),
                                !.opt = firstViewId(ret.val)], 2)
         ELSE IF inv.tool = "get_record" /\ ret.val = <<>>
         THEN TOut(Out(FALSE, "notFound", ret))
         ELSE IF inv.tool = "create_record" /\ ret.val = <<>>
         THEN TOut(Out(TRUE, "notCreated", ret))
         ELSE TOut(Out(FALSE, "success", ret))
    [] OTHER ->
         IF ret.thrown THEN TOut(catchToolError(ret))
         ELSE TOut(Out(FALSE, "success", ret))

(***************************************************************************)
(* Asynchronous call chains                                                *)
(***************************************************************************)
Resp(status, kind, mcpError) == [status |-> status, kind |-> kind, mcpError |-> mcpError]

NoResp == Resp(0, "none", FALSE)

NoAnswer == Answer(FALSE, 0, <<"none">>)

\* One call of fetch: what was sent, then the answer and the payload that
\* request() made of it
Call(ep, key, bearer, base, sid, tid, items, col) ==
  [ep |-> ep, key |-> key, bearer |-> bearer, base |-> base, sid |-> sid,
   tid |-> tid, items |-> items, col |-> col, ans |-> NoAnswer,
   payload |-> <<"none">>]

\* The MCP server and transport instances: none, the pair that main() of
\* part_003 makes at startup, and the pairs made while requests are served
NoServer == 0
MainServer == 1
RequestServers == {2, 3}

Idle ==
  [pc |-> "idle", req |-> NoRequest, apiKey |-> Undefined, apiUrl |-> Undefined,
   stream |-> RawEmpty, parsedBody |-> BodyUndefined, resp |-> NoResp,
   created |-> FALSE, reads |-> 0, inv |-> NoInv, tph |-> 0, op |-> "none",
   ph |-> 0, a |-> NoArgs, acc |-> <<>>, calls |-> <<>>, pending |-> 0,
   ret |-> NoRet, out |-> NoOut, err |-> "none", server |-> NoServer,
   connects |-> 0]

\* fetch(url, { ...options, headers: authHeaders() }) of one request
fetchCall(c, eff, ep) ==
  Call(ep, authHeaders(c).key, authHeaders(c).bearer, getEffectiveBaseUrl(c),
       eff.a.stackId, eff.a.tableId, eff.items, eff.col)

\* The tool result is handed back to the transport, which writes the reply
respond(r, out) ==
  [r EXCEPT !.out = out, !.pc = "done",
            !.resp = IF entry = "stdio" THEN @ ELSE Resp(200, "mcp", FALSE)]

RECURSIVE Drive(_, _, _), ToolDrive(_, _, _)

\* Runs a client operation of chain c from the effect eff up to its next
\* suspension at a fetch, or to its end and on into the calling tool
Drive(c, r, eff) ==
  LET s == [r EXCEPT !.ph = eff.ph, !.a = eff.a, !.acc = eff.acc] IN
  CASE eff.t = "call" ->
         IF authHeaders(c).thrown
         THEN Drive(c, s, opStep(r.op, eff.ph, eff.a, eff.acc, Thrown("noKey", 0), Undefined))
         ELSE [s EXCEPT !.pc = "fetch", !.pending = 1,
                        !.calls = Append(@, fetchCall(c, eff, eff.ep))]
    [] eff.t = "all" ->
         IF authHeaders(c).thrown
         THEN Drive(c, s, EffRet(Thrown("noKey", 0)))
         ELSE [s EXCEPT !.pc = "fetch", !.pending = 3,
                        !.calls = @ \o <<fetchCall(c, eff, "tables"),
                                         fetchCall(c, eff, "columns"),
                                         fetchCall(c, eff, "views")>>]
    [] eff.t = "wait" -> [s EXCEPT !.pc = "fetch"]
    [] OTHER ->
         IF r.inv.tool = "lib"
         THEN [r EXCEPT !.ret = eff.ret, !.pc = "done"]
         ELSE ToolDrive(c, [r EXCEPT !.ret = eff.ret],
                        toolStep(c, r.inv, r.tph, eff.ret))

\* Runs a tool handler of chain c from the effect te
ToolDrive(c, r, te) ==
  IF te.t = "out" THEN respond(r, te.out)
  ELSE Drive(c, [r EXCEPT !.op = te.op, !.tph = te.tph],
             opStep(te.op, 0, te.a, <<>>, NoRet, Undefined))

\* McpServer validates the arguments against inputSchema, then calls the
\* registered handler
callTool(c, r, inv) ==
  IF ~toolSchemaOk(inv)
  THEN respond([r EXCEPT !.inv = inv], Out(TRUE, "schema", NoRet))
  ELSE ToolDrive(c, [r EXCEPT !.inv = inv], toolStep(c, inv, 0, NoRet))

(***************************************************************************)
(* Inputs                                                                  *)
(***************************************************************************)
\* Batches of 0..MaxBatch items are tried
MaxBatch == 11

Entries == {"lib", "stdio", "http", "httpShared"}

EnvKeys == { <<>>, <<" ">>, <<"e", " ">>, <<"pat_", "e">> }

StackIds == { <<" ">>, <<" ", "s">> }
TableIds == { <<>>, <<"t">> }
Names == { <<" ">>, <<"n", " ">> }
Types == { <<>>, <<"shortText">> }
Options == { Undefined, <<" ">>, <<"o", " ">> }

\* The tool calls of the single stdio caller
ToolCalls ==
  { Inv("list_workspaces", NoArgs), Inv("list_stacks", NoArgs) }
  \cup { Inv("list_tables", Args(s, <<>>, <<>>, <<>>, Undefined, 0)) : s \in StackIds }
  \cup { Inv(tool, Args(s, t, <<>>, <<>>, Undefined, 0)) :
           tool \in {"describe_table", "list_records"}, s \in StackIds, t \in TableIds }
  \cup { Inv("search_records", Args(s, t, n, <<>>, o, 0)) :
           s \in StackIds, t \in TableIds, n \in Names, o \in Options }
  \cup { Inv("get_record", Args(s, t, n, <<>>, Undefined, 0)) :
           s \in StackIds, t \in TableIds, n \in Names }
  \cup { Inv("create_record", Args(s, t, <<>>, <<>>, Undefined, f)) :
           s \in StackIds, t \in TableIds, f \in 1..3 }
  \cup { Inv(tool, Args(s, t, <<>>, <<>>, Undefined, n)) :
           tool \in BatchTools, s \in StackIds, t \in TableIds, n \in 0..MaxBatch }
  \cup { Inv("create_table", Args(s, <<>>, n, <<>>, Undefined, 0)) :
           s \in StackIds, n \in Names }
  \cup { Inv("create_field", Args(s, t, n, y, o, 0)) :
           s \in StackIds, t \in TableIds, n \in Names, y \in Types, o \in Options }

\* The tool calls carried by the HTTP requests of each caller
HttpToolCalls(c) ==
  IF c = "A"
  THEN { Inv("list_tables", Args(s, <<>>, <<>>, <<>>, Undefined, 0)) : s \in StackIds }
       \cup { Inv("search_records", Args(<<"s">>, <<"t">>, <<"n">>, <<>>, Undefined, 0)) }
       \cup { Inv("update_records", Args(<<"s">>, <<"t">>, <<>>, <<>>, Undefined, n)) :
                n \in {0, 2, MaxBatch} }
       \cup { Inv("describe_table", Args(<<"s">>, <<" ">>, <<>>, <<>>, Undefined, 0)) }
  ELSE { Inv("list_tables", Args(<<"s">>, <<>>, <<>>, <<>>, Undefined, 0)),
         Inv("search_records", Args(<<"s">>, <<"t">>, <<"n">>, <<>>, Undefined, 0)) }

\* The direct calls of the exported client functions
LibCalls ==
  { Inv("lib", Args(<<"s">>, <<"t">>, <<"n">>, <<"shortText">>, o, n)) :
      o \in Options, n \in 0..MaxBatch }

LibOps(a) ==
  { op \in Ops :
      /\ (a.n # 1 => op \in {"updateRows", "deleteRows"})
      /\ (a.opt # Undefined => op \in {"searchRecords", "createColumn"}) }

Bodies ==
  { <<x>> : x \in Leaves } \cup { Wrap(<<x>>) : x \in Leaves }
    \cup { Wrap(Wrap(<<"null">>)), Wrap(Wrap(<<"one">>)) }

\* The answers of the remote service: any body with a success status, or a
\* failure status
Answers ==
  IF entry \in {"lib", "stdio"}
  THEN { Answer(TRUE, 200, b) : b \in Bodies }
       \cup { Answer(FALSE, 404, <<"bare">>), Answer(FALSE, 404, <<"error", "M1">>),
              Answer(FALSE, 500, <<"message", "M2">>) }
  ELSE { Answer(TRUE, 200, Wrap(<<"one">>)), Answer(TRUE, 200, <<"empty">>),
         Answer(FALSE, 404, <<"error", "M1">>) }

(***************************************************************************)
(* The state machine                                                       *)
(***************************************************************************)
\* The client modules the tools served by entry point e may call. The HTTP
\* entry points take their tools from createStackbyMcpServer, whose client
\* determines the credentials from the request context; a direct caller or
\* the stdio process may use either client.
ClientsOf(e) == IF e \in {"http", "httpShared"} THEN {"mcp"} ELSE {"mcp", "devapi"}

Init ==
  /\ entry \in Entries
  /\ client \in ClientsOf(entry)
  /\ ENV_API_KEY \in IF entry \in {"http", "httpShared"}
                     THEN { <<>>, <<"e", " ">> } ELSE EnvKeys
  /\ requestContextStorage = [c \in Chains |-> <<>>]
  /\ ch = [c \in Chains |-> Idle]

Config == <<entry, client, ENV_API_KEY>>

Set(c, r) == ch' = [ch EXCEPT ![c] = r]

\* A script or test calls an exported client function (as list-workspaces does)
DirectCall(c) ==
  /\ entry = "lib" /\ c = "A" /\ ch[c].pc = "idle"
  /\ \E inv \in LibCalls : \E op \in LibOps(inv.a) :
       Set(c, Drive(c, [ch[c] EXCEPT !.inv = inv, !.op = op],
                    opStep(op, 0, inv.a, <<>>, NoRet, Undefined)))
  /\ UNCHANGED <<Config, requestContextStorage>>

\* The stdio transport delivers a tools/call to the server
StdioCall(c) ==
  /\ entry = "stdio" /\ c = "A" /\ ch[c].pc = "idle"
  /\ \E inv \in ToolCalls : Set(c, callTool(c, ch[c], inv))
  /\ UNCHANGED <<Config, requestContextStorage>>

\* res.writeHead(status); res.end(body)
reply(r, status, kind) == [r EXCEPT !.resp = Resp(status, kind, FALSE), !.pc = "done"]

\* The routing and credential check of the request handler, up to its
\* first await
route(r) ==
  LET req == r.req
      path == normalizePath(req.url)
      apiKey == getApiKeyFromRequest(req)
      apiUrl == getApiUrlFromRequest(req) IN
  IF path = MCP_PATH /\ req.method \in {"POST", "GET"}
  THEN IF ~Truthy(apiKey) THEN reply(r, 401, "unauthorized")
       ELSE [r EXCEPT !.apiKey = apiKey, !.apiUrl = apiUrl,
                      !.pc = IF req.method = "POST" THEN "readBody" ELSE "route"]
  ELSE reply(r, 404, "notFound")

\* for await (const chunk of req): what is left of the stream is read
readBody(r) ==
  [r EXCEPT !.parsedBody = parseRaw(r.stream), !.stream = RawEmpty, !.reads = @ + 1]

\* new: the objects made by one handler invocation are its own
newServer(c) == IF c = "A" THEN 2 ELSE 3

\* createStackbyMcpServer(); new StreamableHTTPServerTransport(); connect
createServer(c, r) ==
  [r EXCEPT !.created = TRUE, !.server = newServer(c), !.pc = "connect"]

\* http.createServer(async (req, res) => ...): the handler up to its first await
OnRequest(c) ==
  /\ entry \in {"http", "httpShared"} /\ ch[c].pc = "idle"
  /\ \E req \in Requests(c) :
       LET r == [ch[c] EXCEPT !.req = req, !.stream = req.body] IN
       IF normalizePath(req.url) = HEALTH_PATH /\ req.method = "GET"
       THEN Set(c, reply(r, 200, "health"))
       ELSE IF entry = "httpShared"
       THEN Set(c, [r EXCEPT !.pc = "debugRead"])
       ELSE LET q == route(r) IN
            Set(c, IF q.pc = "route" THEN createServer(c, q) ELSE q)
  /\ UNCHANGED <<Config, requestContextStorage>>

\* await runWithRequestContext({ apiKey, apiUrl }, () => transport.handleRequest(...))
dispatch(c, r) ==
  /\ requestContextStorage' =
       runWithRequestContext(requestContextStorage, c, Ctx(r.apiKey, r.apiUrl))
  /\ Set(c, [r EXCEPT !.pc = "transport",
                       !.server = IF entry = "httpShared" THEN MainServer ELSE @])

\* part_003: console.log("req.body", await readBody(req)) has read the
\* stream; the handler goes on with routing and the credential check
DebugReadDone(c) ==
  /\ entry = "httpShared" /\ ch[c].pc = "debugRead"
  /\ LET q == route([readBody(ch[c]) EXCEPT !.parsedBody = BodyUndefined]) IN
     IF q.pc = "route"
     THEN dispatch(c, q)
     ELSE Set(c, q) /\ UNCHANGED requestContextStorage
  /\ UNCHANGED Config

\* parsedBody = await readBody(req) has returned
ReadBodyDone(c) ==
  /\ ch[c].pc = "readBody"
  /\ LET r == readBody(ch[c]) IN
     IF entry = "http"
     THEN /\ Set(c, IF r.parsedBody = BodyUndefined
                    THEN reply(r, 400, "parseError") ELSE createServer(c, r))
          /\ UNCHANGED requestContextStorage
     ELSE IF isNotificationOnly(r.parsedBody)
          THEN Set(c, reply(r, 202, "accepted")) /\ UNCHANGED requestContextStorage
          ELSE dispatch(c, r)
  /\ UNCHANGED Config

\* await mcpServer.connect(transport) has returned
ConnectDone(c) ==
  /\ entry = "http" /\ ch[c].pc = "connect"
  /\ dispatch(c, [ch[c] EXCEPT !.connects = @ + 1])
  /\ UNCHANGED Config

\* The body holds a message that expects a reply
hasCall(body) ==
  \E i \in 1..Len(body.msgs) :
    body.msgs[i].isObj /\ body.msgs[i].method /\ body.msgs[i].id = "set"

\* transport.handleRequest(req, res, parsedBody): the SDK opens the event
\* stream of a GET; of a POST it takes parsedBody, or reads the request
\* stream itself when parsedBody is undefined, and answers, calling the
\* tool that a tools/call names
TransportHandle(c) ==
  /\ ch[c].pc = "transport"
  /\ LET r == ch[c]
         q == IF r.parsedBody = BodyUndefined /\ r.req.method = "POST" THEN readBody(r) ELSE r
         body == q.parsedBody IN
     IF r.req.method = "GET"
     THEN Set(c, [r EXCEPT !.resp = Resp(200, "sse", FALSE), !.pc = "streaming"])
     ELSE IF body = BodyUndefined THEN Set(c, reply(q, 400, "sdkParseError"))
     ELSE IF hasCall(body)
     THEN \/ \E inv \in HttpToolCalls(c) : Set(c, callTool(c, q, inv))
          \/ Set(c, reply(q, 200, "mcp"))
     ELSE IF isNotificationOnly(body) THEN Set(c, reply(q, 202, "accepted"))
     ELSE Set(c, reply(q, 400, "sdkInvalid"))
  /\ UNCHANGED <<Config, requestContextStorage>>

\* What is thrown: an Error whose message is plain text, or one whose
\* message, cut at 200 UTF-16 units, holds half of a surrogate pair
Errors == {"plain", "loneSurrogate"}

\* encodeURIComponent(message.slice(0, 200)) returns, or throws URIError on
\* an unpaired surrogate
headerEncodable(e) == e # "loneSurrogate"

\* catch (err): 500 with the serialized error and X-MCP-Error when no
\* header was sent yet, else only res.setHeader, which throws and is caught;
\* an exception raised inside the catch block rejects the handler
catchError(r, e) ==
  IF ~headerEncodable(e) THEN [r EXCEPT !.err = e, !.pc = "rejected"]
  ELSE IF r.resp.status = 0
  THEN [r EXCEPT !.err = e, !.resp = Resp(500, "diagnostic", TRUE), !.pc = "done"]
  ELSE [r EXCEPT !.err = e, !.pc = "done"]

\* connect or transport.handleRequest rejects
TransportThrows(c) ==
  /\ ch[c].pc \in {"connect", "transport", "streaming"}
  /\ \E e \in Errors : Set(c, catchError(ch[c], e))
  /\ UNCHANGED <<Config, requestContextStorage>>

\* The event stream of a GET is closed
StreamEnd(c) ==
  /\ ch[c].pc = "streaming"
  /\ Set(c, [ch[c] EXCEPT !.pc = "done"])
  /\ UNCHANGED <<Config, requestContextStorage>>

\* await fetch(...) resolves with an answer of the remote service
FetchReturns(c) ==
  /\ ch[c].pc = "fetch" /\ ch[c].pending > 0
  /\ \E ans \in Answers :
       LET rr == requestResult(ans)
           i == Len(ch[c].calls) - ch[c].pending + 1
           r == [ch[c] EXCEPT !.pending = @ - 1,
                              !.calls[i].ans = ans,
                              !.calls[i].payload = rr.payload] IN
       Set(c, Drive(c, r, opStep(r.op, r.ph, r.a, r.acc, rr.ret, rr.payload)))
  /\ UNCHANGED <<Config, requestContextStorage>>

\* An answer to a request of a Promise.all that was already rejected
LateAnswer(c) ==
  /\ ch[c].pc = "done" /\ ch[c].pending > 0
  /\ \E ans \in Answers :
       LET i == Len(ch[c].calls) - ch[c].pending + 1 IN
       Set(c, [ch[c] EXCEPT !.pending = @ - 1,
                            !.calls[i].ans = ans,
                            !.calls[i].payload = requestResult(ans).payload])
  /\ UNCHANGED <<Config, requestContextStorage>>

\* The chain has ended: its store is unreachable and its slot is free
Complete(c) ==
  /\ ch[c].pc \in {"done", "rejected"} /\ ch[c].pending = 0
  /\ Set(c, Idle)
  /\ requestContextStorage' = [requestContextStorage EXCEPT ![c] = <<>>]
  /\ UNCHANGED Config

Next ==
  \E c \in Chains :
    \/ DirectCall(c)
    \/ StdioCall(c)
    \/ OnRequest(c)
    \/ DebugReadDone(c)
    \/ ReadBodyDone(c)
    \/ ConnectDone(c)
    \/ TransportHandle(c)
    \/ TransportThrows(c)
    \/ StreamEnd(c)
    \/ FetchReturns(c)
    \/ LateAnswer(c)
    \/ Complete(c)

Spec == Init /\ [][Next]_vars

(***************************************************************************)
(* Properties                                                              *)
(***************************************************************************)
Http == entry \in {"http", "httpShared"}

\* The remote calls that chain c has issued since its request began
CallsOf(c) == { ch[c].calls[i] : i \in 1..Len(ch[c].calls) }

\* C1: while two HTTP requests are served at once, each remote call issued
\* for a request carries the key that request supplied, and the context a
\* request's calls read is the one made from that request's own headers.
C1_ContextIsolation ==
  Http =>
    \A c \in Chains :
      /\ \A call \in CallsOf(c) : call.key = getApiKeyFromRequest(ch[c].req)
      /\ requestContextStorage[c] # <<>> =>
            getRequestContext(c)[1].apiKey = getApiKeyFromRequest(ch[c].req)

\* Both requests have a remote call in flight, under different keys
C1_Witness ==
  /\ Http
  /\ ch["A"].pc = "fetch" /\ ch["B"].pc = "fetch"
  /\ ch["A"].calls[1].key # ch["B"].calls[1].key
  /\ ch["A"].calls[1].key = getApiKeyFromRequest(ch["A"].req)

\* C2: the key a remote call carries is the key of the request context
\* whenever a context is attached and holds a non-empty key, and the trimmed
\* STACKBY_API_KEY otherwise.
C2_KeyPrecedence ==
  \A c \in Chains : \A call \in CallsOf(c) :
    call.key =
      IF /\ client = "mcp"
         /\ requestContextStorage[c] # <<>>
         /\ requestContextStorage[c][1].apiKey # Undefined
         /\ trim(requestContextStorage[c][1].apiKey) # <<>>
      THEN requestContextStorage[c][1].apiKey
      ELSE trim(ENV_API_KEY)

\* A call made under a context while the environment holds another key
C2_Witness ==
  /\ trim(ENV_API_KEY) # <<>>
  /\ \E c \in Chains : \E call \in CallsOf(c) :
       /\ requestContextStorage[c] # <<>>
       /\ call.key = requestContextStorage[c][1].apiKey
       /\ call.key # trim(ENV_API_KEY)

\* No key is there for the client of chain c: none in the environment and,
\* for the client that reads the request context, none in the context
NoKey(c) ==
  /\ \/ client = "devapi"
     \/ requestContextStorage[c] = <<>>
     \/ ~Truthy(requestContextStorage[c][1].apiKey)
  /\ trim(ENV_API_KEY) = <<>>

\* A direct call of a client function on chain c has returned or thrown
LibDone(c) == ch[c].pc = "done" /\ ch[c].inv.tool = "lib"

\* C3 as stated: without any key every client operation fails with the
\* missing-key error and no network call is attempted.
C3_EveryOperationFailsWithoutKey ==
  \A c \in Chains :
    NoKey(c) =>
      /\ ch[c].calls = <<>>
      /\ LibDone(c) => ch[c].ret.thrown /\ ch[c].ret.err = "noKey"

\* C3: without any key no client operation attempts a network call (the
\* column fetch of searchRecords included), and every operation fails with
\* the missing-key error, except updateRows and deleteRows, which return an
\* empty result for an empty batch and fail with the batch-size error for
\* more than 10 items.
C3_NoCallWithoutKey ==
  \A c \in Chains :
    NoKey(c) =>
      /\ ch[c].calls = <<>>
      /\ LibDone(c) =>
            IF ch[c].op \in {"updateRows", "deleteRows"} /\ ch[c].inv.a.n = 0
            THEN ch[c].ret = Value(<<>>)
            ELSE IF ch[c].op \in {"updateRows", "deleteRows"} /\ ch[c].inv.a.n > 10
            THEN ch[c].ret.thrown /\ ch[c].ret.err = "batch"
            ELSE ch[c].ret.thrown /\ ch[c].ret.err = "noKey"

\* searchRecords without a column has failed for want of a key
C3_Witness ==
  /\ NoKey("A") /\ LibDone("A")
  /\ ch["A"].op = "searchRecords" /\ ch["A"].inv.a.opt = Undefined
  /\ ch["A"].ret.err = "noKey" /\ ch["A"].calls = <<>>

\* Neither a non-blank X-Stackby-API-Key nor a Bearer value with a
\* non-blank remainder
NoCredentials(req) ==
  /\ req.key = Undefined \/ trim(req.key) = <<>>
  /\ \/ req.auth = Undefined
     \/ Head(req.auth) # "Bearer "
     \/ trim(Tail(req.auth)) = <<>>

\* C4: a POST or GET to /mcp without credentials is answered 401, and no
\* context is established, no server or transport is made for it, no tool is
\* dispatched and no remote call is issued.
C4_Unauthorized ==
  \A c \in Chains :
    ( /\ Http
      /\ ch[c].req.method \in {"POST", "GET"}
      /\ normalizePath(ch[c].req.url) = MCP_PATH
      /\ NoCredentials(ch[c].req) ) =>
        /\ ch[c].pc \in {"debugRead", "done"}
        /\ ch[c].pc = "done" => ch[c].resp = Resp(401, "unauthorized", FALSE)
        /\ requestContextStorage[c] = <<>>
        /\ ~ch[c].created
        /\ ch[c].inv = NoInv
        /\ ch[c].calls = <<>>

\* A request whose Bearer value is blank has been answered 401
C4_Witness ==
  /\ Http
  /\ ch["A"].pc = "done"
  /\ ch["A"].req.auth = <<"Bearer ", " ">>
  /\ ch["A"].resp.status = 401

AuthenticatedPost(c) ==
  /\ Http
  /\ ch[c].req.method = "POST"
  /\ normalizePath(ch[c].req.url) = MCP_PATH
  /\ ~NoCredentials(ch[c].req)

\* The body is one message, or a batch of messages, none with a reply id
NotificationOnly(raw) ==
  /\ raw.text = "json"
  /\ raw.json.kind \in {"obj", "array"}
  /\ Len(raw.json.msgs) >= 1
  /\ \A i \in 1..Len(raw.json.msgs) :
       LET m == raw.json.msgs[i] IN
       m.isObj /\ m.jsonrpc /\ m.method /\ m.id = "absent"

\* C5: an authenticated POST whose body holds notifications only is answered
\* with an empty 202 by the handler and is never handed to the transport.
C5_NotificationAccepted ==
  \A c \in Chains :
    AuthenticatedPost(c) /\ NotificationOnly(ch[c].req.body) =>
      /\ ch[c].pc # "transport"
      /\ ch[c].pc = "done" => ch[c].resp = Resp(202, "accepted", FALSE)

\* C6: an authenticated POST whose body is empty or is not JSON is answered
\* 400 with the parse error of the handler; no server or transport is made
\* for it, no context is established and no tool runs.
C6_ParseError ==
  \A c \in Chains :
    AuthenticatedPost(c) /\ ch[c].req.body.text # "json" =>
      /\ ch[c].pc \in {"debugRead", "readBody", "done"}
      /\ ch[c].pc = "done" => ch[c].resp = Resp(400, "parseError", FALSE)
      /\ ~ch[c].created
      /\ requestContextStorage[c] = <<>>
      /\ ch[c].inv = NoInv

\* C7: update_records and delete_records turn down a batch of no item and a
\* batch of 11 or more items without any remote call, and for a batch of 1
\* to 10 items (identifiers and key present) issue one remote call that
\* carries every item.
C7_ToolBatchBounds ==
  \A c \in Chains :
    ch[c].inv.tool \in BatchTools =>
      LET n == ch[c].inv.a.n IN
      /\ (n = 0 \/ n >= 11) => ch[c].calls = <<>> /\ ch[c].out.isError
      /\ (n >= 1 /\ n <= 10) =>
            /\ ch[c].out.kind # "schema"
            /\ ( /\ trim(ch[c].inv.a.stackId) # <<>>
                 /\ trim(ch[c].inv.a.tableId) # <<>>
                 /\ ~NoKey(c) ) =>
                  /\ Len(ch[c].calls) = 1
                  /\ ch[c].calls[1].ep =
                       (IF ch[c].inv.tool = "update_records" THEN "rowsUpdate"
                        ELSE "rowsDelete")
                  /\ Len(ch[c].calls[1].items) = n
                  /\ \A i \in 1..n :
                       ch[c].calls[1].items[i] =
                         (IF ch[c].inv.tool = "update_records"
                          THEN [id |-> RowId(i), field |-> FieldMap(i)]
                          ELSE RowId(i))

\* A batch of 10 has gone out whole, from delete_records
C7_Witness ==
  /\ ch["A"].inv.tool = "delete_records"
  /\ ch["A"].inv.a.n = 10
  /\ Len(ch["A"].calls) = 1
  /\ Len(ch["A"].calls[1].items) = 10

\* C8: updateRows and deleteRows called with more than 10 items fail with
\* the batch-size error and make no network call.
C8_ClientBatchLimit ==
  \A c \in Chains :
    ( /\ ch[c].inv.tool = "lib"
      /\ ch[c].op \in {"updateRows", "deleteRows"}
      /\ ch[c].inv.a.n > 10 ) =>
        /\ ch[c].pc = "done"
        /\ ch[c].ret.thrown /\ ch[c].ret.err = "batch"
        /\ ch[c].calls = <<>>

\* updateRows of 11 items has failed although a key was there
C8_Witness ==
  /\ ~NoKey("A") /\ LibDone("A")
  /\ ch["A"].op = "updateRows" /\ ch["A"].inv.a.n = 11
  /\ ch["A"].ret.err = "batch"

C10_SearchDefaultsToFirstColumn ==
  \A c \in Chains :
    ( /\ ch[c].op = "searchRecords"
      /\ ch[c].inv.a.opt = Undefined \/ trim(ch[c].inv.a.opt) = <<>>
      /\ ch[c].calls # <<>> ) =>
        /\ ch[c].calls[1].ep = "columns"
        /\ ( /\ Len(ch[c].calls) >= 2
             /\ listOf(ch[c].calls[1].payload) # <<>> ) =>
              ch[c].calls[2].ep = "search" /\ ch[c].calls[2].col = FirstColumn
        /\ ( /\ ch[c].pc = "done"
             /\ ch[c].calls[1].ans.ok
             /\ ch[c].calls[1].payload = <<"empty">> ) =>
              ch[c].ret = Value(<<>>)

TwoIdTools ==
  {"describe_table", "list_records", "search_records", "get_record",
   "create_record", "update_records", "delete_records", "create_field"}

BlankId(c) ==
  trim(ch[c].inv.a.stackId) = <<>> \/ trim(ch[c].inv.a.tableId) = <<>>

\* C11: a tool that takes stackId and tableId answers an empty or
\* whitespace-only value of either with an error result and makes no remote
\* call, whatever its other arguments and the key are.
C11_BlankIdsRejected ==
  \A c \in Chains :
    ch[c].inv.tool \in TwoIdTools /\ BlankId(c) =>
      /\ ch[c].pc = "done"
      /\ ch[c].out.isError
      /\ ch[c].calls = <<>>

\* create_field with a stack, a key and an empty tableId has been turned down
C11_Witness ==
  /\ ch["A"].inv.tool = "create_field"
  /\ trim(ch["A"].inv.a.stackId) # <<>> /\ ch["A"].inv.a.tableId = <<>>
  /\ ~NoKey("A")
  /\ ch["A"].out = Out(TRUE, "required", NoRet)

\* The body carries the one created record: by itself, in a list, or either
\* of these under a data key
EchoesRecord(body) ==
  body \in { <<"obj">>, <<"one">>, <<"data", "obj">>, <<"data", "one">> }

\* C12: create_record, when the remote answers the create call with success
\* and echoes the single created record, returns a result that is no error
\* and shows that record (its id and its field map).
C12_CreateRecordEchoed ==
  \A c \in Chains :
    ( /\ ch[c].inv.tool = "create_record"
      /\ ch[c].pc = "done"
      /\ Len(ch[c].calls) = 1
      /\ ch[c].calls[1].ans.ok
      /\ EchoesRecord(ch[c].calls[1].ans.body) ) =>
        /\ ~ch[c].out.isError
        /\ ch[c].out.kind = "success"
        /\ ch[c].out.ret.val = <<1>>

\* Call i of chain c was answered with a non-success status and a body that
\* holds a server message
FailedWithMessage(c, i) ==
  LET ans == ch[c].calls[i].ans IN
  /\ ans # NoAnswer /\ ~ans.ok
  /\ Len(ans.body) = 2 /\ ans.body[1] \in {"error", "message"}

\* The operation of chain c has failed with the status and message of the
\* answer to call i, and the tool that called it returned them as an error
ReportsFailure(c, i) ==
  LET ans == ch[c].calls[i].ans IN
  /\ ch[c].pc = "done"
  /\ ch[c].ret.thrown
  /\ ch[c].ret.status = ans.status /\ ch[c].ret.msg = ans.body[2]
  /\ ch[c].inv.tool # "lib" =>
        /\ ch[c].out.isError
        /\ ch[c].out.ret.status = ans.status /\ ch[c].out.ret.msg = ans.body[2]

NotPassedOn(c, i) ==
  \/ ch[c].op = "getAllStacks" /\ ch[c].calls[i].ep = "stacks"
  \/ \E j \in 1..(i - 1) :
       ch[c].calls[j].ans # NoAnswer /\ requestResult(ch[c].calls[j].ans).ret.thrown

C14_DispatchErrorsCaught ==
  \A c \in Chains :
    ch[c].err # "none" =>
      /\ ch[c].pc = "done"
      /\ \/ ch[c].resp = Resp(500, "diagnostic", TRUE)
         \/ ch[c].resp = Resp(200, "sse", FALSE)

RECURSIVE Collected(_, _)

\* The stacks of workspaces 1..k of chain c, in that order, leaving out the
\* workspaces whose stack fetch (call k + 1) failed
Collected(c, k) ==
  IF k = 0 THEN <<>>
  ELSE LET rr == requestResult(ch[c].calls[k + 1].ans)
           list == stackList(rr.payload) IN
       Collected(c, k - 1) \o
         (IF rr.ret.thrown THEN <<>> ELSE [i \in 1..Len(list) |-> StackOf(k, list[i])])

\* C15: getAllStacks fetches the stacks of every listed workspace in order
\* and returns the stacks of exactly those whose fetch succeeded; a failed
\* stack fetch is skipped, and only a failed workspace listing fails it.
C15_AllStacksSkipsFailures ==
  \A c \in Chains :
    ch[c].op = "getAllStacks" /\ ch[c].pc = "done" /\ ch[c].calls # <<>> =>
      LET first == requestResult(ch[c].calls[1].ans)
          n == Len(listOf(first.payload)) IN
      /\ ch[c].calls[1].ep = "workspaces"
      /\ IF first.ret.thrown
         THEN ch[c].ret = first.ret /\ Len(ch[c].calls) = 1
         ELSE /\ Len(ch[c].calls) = 1 + n
              /\ \A k \in 1..n :
                   ch[c].calls[k + 1].ep = "stacks" /\ ch[c].calls[k + 1].items = <<k>>
              /\ ch[c].ret = Value(Collected(c, n))

\* The first of two workspaces failed and the stacks of the second came back
C15_Witness ==
  /\ ch["A"].op = "getAllStacks" /\ ch["A"].pc = "done"
  /\ Len(ch["A"].calls) = 3
  /\ ~ch["A"].calls[2].ans.ok /\ ch["A"].calls[3].ans.ok
  /\ ch["A"].ret = Value(<<StackOf(2, 1)>>)

\* Chain c runs, or has run, a tool
ToolInvoked(c) == ch[c].inv.tool \notin {"none", "lib"}

\* What a call asks of the remote, apart from its credentials
Asked(call) == <<call.ep, call.sid, call.tid, call.items, call.col>>

\* C16: within one tool invocation no remote call is made twice, and every
\* call that the remote fails, other than the stack fetch of a workspace in
\* getAllStacks, is reported by the result of that invocation.
C16_NoRetryEveryFailureSurfaced ==
  \A c \in Chains :
    ToolInvoked(c) =>
      /\ \A i, j \in 1..Len(ch[c].calls) :
           i # j => Asked(ch[c].calls[i]) # Asked(ch[c].calls[j])
      /\ \A i \in 1..Len(ch[c].calls) :
           ( /\ ch[c].calls[i].ans # NoAnswer /\ ~ch[c].calls[i].ans.ok
             /\ ~(ch[c].op = "getAllStacks" /\ ch[c].calls[i].ep = "stacks") ) =>
               /\ ch[c].pc = "done"
               /\ ch[c].out.isError
               /\ ch[c].out.ret = requestResult(ch[c].calls[i].ans).ret

\* C17: every remote call carries the effective key in x-api-key; a key
\* that begins with pat_ is sent as the bearer token as well, and a key that
\* does not is never sent as a bearer token.
C17_KeyHeaders ==
  \A c \in Chains : \A call \in CallsOf(c) :
    /\ call.key # <<>> /\ call.key = getEffectiveApiKey(c)
    /\ call.bearer = IF Head(call.key) = "pat_" THEN call.key ELSE Undefined

\* A call made under a token from the environment, sent as bearer too
C17_Witness ==
  /\ ~Http
  /\ \E call \in CallsOf("A") :
       call.key = <<"pat_", "e">> /\ call.bearer = <<"pat_", "e">>

\* The handler of the tool of chain c was entered (its arguments passed the
\* input schema) with every identifier it requires non-blank
ValidIds(c) ==
  /\ ToolInvoked(c)
  /\ ch[c].inv.tool \in BatchTools => ch[c].inv.a.n \in 1..10
  /\ \A i \in 1..Len(requiredIds(ch[c].inv)) : requiredIds(ch[c].inv)[i] # <<>>

\* C18: a tool that is called with valid identifiers while no key is
\* available returns the guidance about setting the key, not marked as an
\* error, and makes no remote call.
C18_GuidanceWithoutKey ==
  \A c \in Chains :
    ValidIds(c) /\ NoKey(c) =>
      /\ ch[c].pc = "done"
      /\ ch[c].out = Out(FALSE, "guidance", NoRet)
      /\ ch[c].calls = <<>>

\* A tool that was called with what it requires has answered with the
\* guidance
C18_Witness ==
  /\ NoKey("A")
  /\ ch["A"].inv.tool \in {"list_stacks", "search_records", "update_records"}
  /\ ValidIds("A")
  /\ ch["A"].out.kind = "guidance" /\ ~ch["A"].out.isError

\* The calls of chain c that the remote has not answered yet
InFlight(c) == { i \in 1..Len(ch[c].calls) : ch[c].calls[i].ans = NoAnswer }

\* C19: the remote calls of one invocation are sequential: at most one of
\* them is in flight at any time, describe_table's fetch of table, columns
\* and views included, and the result is produced only after all of them
\* have completed.
C19_SequentialCalls ==
  \A c \in Chains :
    /\ Cardinality(InFlight(c)) <= 1
    /\ ch[c].pc = "done" => InFlight(c) = {}

\* Chain c is not inside a dispatch that established a context: it belongs
\* to the stdio server or a direct caller, or its request has not been
\* dispatched yet, or its chain has completed
OutsideDispatch(c) ==
  ~Http \/ ch[c].pc \in {"idle", "debugRead", "readBody", "connect"}

\* C20: code that runs outside every dispatch sees no request context, and
\* the client then works with the key and the base URL of the process only.
C20_NoContextOutsideDispatch ==
  \A c \in Chains :
    OutsideDispatch(c) =>
      /\ getRequestContext(c) = <<>>
      /\ getEffectiveApiKey(c) = trim(ENV_API_KEY)
      /\ getEffectiveBaseUrl(c) = stripSlash(DEFAULT_BASE_URL)
      /\ \A call \in CallsOf(c) :
           call.key = trim(ENV_API_KEY) /\ call.base = stripSlash(DEFAULT_BASE_URL)

\* One request is dispatched with its context and has a call in flight
\* while the other, not yet dispatched, sees none
C20_Witness ==
  /\ Http
  /\ ch["B"].pc = "fetch" /\ getRequestContext("B") # <<>>
  /\ ch["A"].pc \in {"readBody", "connect"} /\ getRequestContext("A") = <<>>

\* C21: the body that create_record and update_records send holds, for each
\* record in the order the caller gave, the field map of the caller as it is
\* under field (no key added, dropped or matched against a column) and, for
\* update_records, the record id of the caller as it is.
C21_FieldMapsVerbatim ==
  \A c \in Chains : \A call \in CallsOf(c) :
    /\ ch[c].inv.tool = "create_record" =>
          /\ call.ep = "rowsCreate"
          /\ call.items = <<[field |-> FieldMap(ch[c].inv.a.n)]>>
    /\ ch[c].inv.tool = "update_records" =>
          /\ call.ep = "rowsUpdate"
          /\ Len(call.items) = ch[c].inv.a.n
          /\ \A i \in 1..Len(call.items) :
               /\ call.items[i].id = Records(ch[c].inv.a.n)[i].id
               /\ call.items[i].field = Records(ch[c].inv.a.n)[i].fields

\* update_records has sent a record whose id begins with a blank and whose
\* field map names a key that is no column of the table
C21_Witness ==
  /\ ch["A"].inv.tool = "update_records"
  /\ Len(ch["A"].calls) = 1
  /\ Len(ch["A"].calls[1].items) >= 2
  /\ ch["A"].calls[1].items[2] =
       [id |-> <<" ", "r", "2">>, field |-> << <<"Ghost", "null">>, <<"Name", "v">> >>]

\* create_field of chain c was called without a view: viewId left out or blank
NoViewGiven(c) ==
  /\ ch[c].inv.tool = "create_field"
  /\ ch[c].inv.a.opt = Undefined \/ trim(ch[c].inv.a.opt) = <<>>

Envelope(out) ==
  \/ ~out.isError /\ out.kind \in {"success", "guidance", "notFound"}
  \/ out.isError /\ out.kind \in {"required", "failed", "notCreated", "schema"}

\* C23: every tool invocation ends with one response envelope, set once: a
\* text without the error flag, or an error text with the error flag; when
\* the client threw (missing key, batch size, remote failure) the envelope
\* is the error text of that error, and no error leaves the handler.
C23_OneEnvelope ==
  [][ \A c \in Chains :
        /\ ( ch'[c].inv.tool \notin {"none", "lib"} /\ ch'[c].pc # "fetch" ) =>
              /\ ch'[c].pc = "done" /\ ch'[c].err = "none"
              /\ Envelope(ch'[c].out)
              /\ ch'[c].ret.thrown => ch'[c].out = Out(TRUE, "failed", ch'[c].ret)
              /\ ~ch'[c].out.isError => ~ch'[c].ret.thrown
        /\ ch[c].out # NoOut => ch'[c].out = ch[c].out \/ ch'[c] = Idle
    ]_vars

\* update_records has answered the failure of the remote with an error text
C23_Witness ==
  /\ ch["A"].inv.tool = "update_records" /\ ch["A"].pc = "done"
  /\ Len(ch["A"].calls) = 1 /\ ~ch["A"].calls[1].ans.ok
  /\ ch["A"].ret.thrown /\ ch["A"].ret.err = "remote"
  /\ ch["A"].out = Out(TRUE, "failed", ch["A"].ret)

\* C24: of every authenticated POST to /mcp the body stream is read and
\* parsed once, and what the transport is handed is the parsed body that the
\* client sent, so that the transport never reads the consumed stream.
C24_BodyReadOnce ==
  \A c \in Chains :
    AuthenticatedPost(c) =>
      /\ ch[c].reads <= 1
      /\ ch[c].pc \notin {"idle", "debugRead", "readBody"} => ch[c].reads = 1
      /\ ch[c].pc = "transport" =>
            /\ ch[c].req.body.text = "json"
            /\ ch[c].parsedBody = ch[c].req.body.json

\* C25: each authenticated /mcp request is served by a server and transport
\* made for it, connect is called at most once on an instance, and no
\* instance serves two requests, however they interleave.
C25_ServerPerRequest ==
  Http =>
    \A c \in Chains :
      /\ ch[c].pc \in {"transport", "streaming", "fetch"} =>
            ch[c].created /\ ch[c].server \in RequestServers
      /\ ch[c].connects <= 1
      /\ \A d \in Chains \ {c} :
           ch[c].server # NoServer => ch[d].server # ch[c].server

\* C26: a chain has at most one context; once set at dispatch it holds the
\* key and the URL taken from the headers of its own request, these are what
\* the chain reads, and no step changes it until the chain completes.
C26_ContextSetOnce ==
  [][ \A c \in Chains :
        /\ Len(requestContextStorage'[c]) <= 1
        /\ requestContextStorage'[c] # <<>> =>
              /\ requestContextStorage'[c][1] =
                    Ctx(getApiKeyFromRequest(ch'[c].req), getApiUrlFromRequest(ch'[c].req))
              /\ ch'[c].apiKey = requestContextStorage'[c][1].apiKey
              /\ ch'[c].apiUrl = requestContextStorage'[c][1].apiUrl
        /\ requestContextStorage[c] # <<>> =>
              \/ requestContextStorage'[c] = requestContextStorage[c] /\ ch'[c].req = ch[c].req
              \/ requestContextStorage'[c] = <<>> /\ ch'[c] = Idle
    ]_vars

\* Both requests are dispatched, each under the context of its own headers,
\* and the second has a remote call in flight with its key and URL
C26_Witness ==
  /\ requestContextStorage["A"] # <<>>
  /\ requestContextStorage["B"] = <<Ctx(<<"pat_", "b">>, <<"v">>)>>
  /\ requestContextStorage["A"] # requestContextStorage["B"]
  /\ ch["B"].pc = "fetch"
  /\ ch["B"].calls[1].key = <<"pat_", "b">> /\ ch["B"].calls[1].base = <<"v">>

\* Chain c serves a GET or POST to /mcp and has passed the credential check
Routed(c) ==
  /\ Http
  /\ ch[c].req.method \in {"POST", "GET"}
  /\ normalizePath(ch[c].req.url) = MCP_PATH
  /\ ch[c].pc \notin {"idle", "debugRead"}

\* C27: the credential of a request is the trimmed X-Stackby-API-Key when
\* that header is not blank, whatever Authorization holds; else the trimmed
\* remainder of an Authorization: Bearer header when that is not blank; else
\* the request has no credential and is answered 401. Every remote call of
\* the request carries that credential.
C27_HeaderPrecedence ==
  \A c \in Chains :
    Routed(c) =>
      LET k == ch[c].req.key
          a == ch[c].req.auth IN
      IF k # Undefined /\ trim(k) # <<>>
      THEN /\ ch[c].apiKey = trim(k) /\ ch[c].resp.status # 401
           /\ \A call \in CallsOf(c) : call.key = trim(k)
      ELSE IF a # Undefined /\ Head(a) = "Bearer " /\ trim(Tail(a)) # <<>>
      THEN /\ ch[c].apiKey = trim(Tail(a)) /\ ch[c].resp.status # 401
           /\ \A call \in CallsOf(c) : call.key = trim(Tail(a))
      ELSE /\ ch[c].resp = Resp(401, "unauthorized", FALSE)
           /\ ch[c].apiKey = Undefined /\ ch[c].calls = <<>>

\* A request that carries both headers has a remote call under the key of
\* X-Stackby-API-Key
C27_Witness ==
  /\ Routed("A")
  /\ ch["A"].req.key = <<"a", " ">>
  /\ ch["A"].req.auth = <<"Bearer ", "pat_", "b">>
  /\ ch["A"].calls # <<>> /\ ch["A"].calls[1].key = <<"a">>

\* The handler of the tool of chain c was entered with one of the
\* identifiers it requires empty or blank
SomeIdBlank(c) ==
  /\ ToolInvoked(c)
  /\ ch[c].inv.tool \in BatchTools => ch[c].inv.a.n \in 1..10
  /\ \E i \in 1..Len(requiredIds(ch[c].inv)) : requiredIds(ch[c].inv)[i] = <<>>

\* C28: a tool called with a blank required identifier while no key is
\* available answers with the missing-identifier error, error flag set, and
\* not with the guidance about the key; it makes no remote call.
C28_IdentifiersBeforeKey ==
  \A c \in Chains :
    SomeIdBlank(c) /\ NoKey(c) =>
      /\ ch[c].pc = "done"
      /\ ch[c].out = Out(TRUE, "required", NoRet)
      /\ ch[c].calls = <<>>

\* get_record without a key and with a blank recordId has answered that the
\* identifiers are required
C28_Witness ==
  /\ NoKey("A")
  /\ ch["A"].inv.tool = "get_record"
  /\ trim(ch["A"].inv.a.stackId) # <<>> /\ trim(ch["A"].inv.a.tableId) # <<>>
  /\ trim(ch["A"].inv.a.name) = <<>>
  /\ ch["A"].out.kind = "required" /\ ch["A"].out.isError

C30_EmptyBatchNoOp ==
  \A c \in Chains :
    ( /\ ch[c].inv.tool = "lib"
      /\ ch[c].op \in {"updateRows", "deleteRows"}
      /\ ch[c].inv.a.n = 0 ) =>
        /\ ch[c].pc = "done"
        /\ ~ch[c].ret.thrown /\ ch[c].ret = Value(<<>>)
        /\ ch[c].calls = <<>>

\* deleteRows of no row has returned the empty result although no key is set
C30_Witness ==
  /\ NoKey("A") /\ LibDone("A")
  /\ ch["A"].op = "deleteRows" /\ ch["A"].inv.a.n = 0
  /\ ch["A"].ret = Value(<<>>) /\ ch["A"].calls = <<>>
====
